---- MODULE Spec2Model ----
(***************************************************************************)
(* Model of the D-MPNN featurization core of deepchem:                     *)
(*   deepchem/feat/molecule_featurizers/dmpnn_featurizer.py                *)
(* The directed-bond mapper (_MapperDMPNN) is modelled step by step: one   *)
(* action per atom-pair iteration of _generate_mapping, one for the        *)
(* padding of the incoming lists, one for the bond-indexed expansion and   *)
(* one per row of the reverse-stripping pass.                              *)
(*                                                                         *)
(* Python lists and numpy arrays are TLA+ sequences; At(l, i) reads the    *)
(* 0-based Python index i.                                                 *)
(***************************************************************************)
EXTENDS Integers, Sequences, FiniteSets, TLC

VARIABLES
    pc,                             \* position inside the running call
    self_features_generators,       \* DMPNNFeaturizer.features_generators
    self_is_adding_hs,              \* DMPNNFeaturizer.is_adding_hs
    arg,                            \* the datapoint _featurize was called with
    datapoint,                      \* _featurize's datapoint once validated; the
                                    \* same object is _MapperDMPNN.datapoint
    global_features,                \* local of _featurize
    f_atoms,                        \* local of _featurize
    edge_index,                     \* local of _featurize
    log,                            \* warnings logged during the call
    result,                         \* what the call returned or raised
    remembered,                     \* an earlier call of the session and its record
    suspended,                      \* the frame of a second call in flight, not running
    concat_fdim,                    \* _MapperDMPNN.concat_fdim
    f_atoms_zero_padded,            \* atom index -> atom features, row 0 is padding
    num_atoms,                      \* _MapperDMPNN.num_atoms
    num_bonds,                      \* _MapperDMPNN.num_bonds
    f_ini_atoms_bonds_zero_padded,  \* bond index -> concat(origin atom, bond) features
    atom_to_incoming_bonds,         \* atom index -> list of incoming bond indices
    bond_to_ini_atom,               \* bond index -> origin atom index
    b2revb,                         \* bond index -> reverse bond index
    mapping,                        \* _MapperDMPNN.mapping
    a1, a2,                         \* loop variables of _generate_mapping (0: loop over)
    count                           \* loop variable of _replace_rev_bonds

mvars == <<concat_fdim, f_atoms_zero_padded, num_atoms, num_bonds,
           f_ini_atoms_bonds_zero_padded, atom_to_incoming_bonds,
           bond_to_ini_atom, b2revb, mapping, a1, a2, count>>

selfvars == <<self_features_generators, self_is_adding_hs>>

fvars == <<arg, global_features, f_atoms, edge_index, log, result>>

\* what no step of the mapper touches
outer == <<selfvars, fvars, remembered, suspended>>

vars == <<pc, datapoint, mvars, selfvars, fvars, remembered, suspended>>

----------------------------------------------------------------------------
(* Bounds of the model.                                                    *)

MaxAtoms == 3       \* atoms of a molecule handed to the mapper
MaxBonds == 3       \* bonds of a molecule handed to the mapper

----------------------------------------------------------------------------
(* Python containers.                                                      *)

At(l, i) == l[i + 1]

Range(l) == {l[i] : i \in 1..Len(l)}

Zeros(n) == [i \in 1..n |-> 0]

Max(S) == CHOOSE x \in S : \A y \in S : y <= x

\* the value of a name that is not bound yet
None == "None"

\* Python's None where a bond is expected
NoBond == [none |-> TRUE]

\* Python's None where an object is expected
PyNone == [none |-> TRUE]

----------------------------------------------------------------------------
(* GraphConvConstants.                                                     *)

MAX_ATOMIC_NUM == 100

ATOM_FEATURES ==
    [atomic_num    |-> [i \in 1..MAX_ATOMIC_NUM |-> i - 1],
     degree        |-> <<0, 1, 2, 3, 4, 5>>,
     formal_charge |-> <<-1, -2, 1, 2, 0>>,
     chiral_tag    |-> <<0, 1, 2, 3>>,
     num_Hs        |-> <<0, 1, 2, 3, 4>>]

ATOM_FEATURES_HYBRIDIZATION == <<"SP", "SP2", "SP3", "SP3D", "SP3D2">>

ATOM_FDIM ==
    (Len(ATOM_FEATURES.atomic_num) + 1) + (Len(ATOM_FEATURES.degree) + 1)
      + (Len(ATOM_FEATURES.formal_charge) + 1) + (Len(ATOM_FEATURES.chiral_tag) + 1)
      + (Len(ATOM_FEATURES.num_Hs) + 1)
      + Len(ATOM_FEATURES_HYBRIDIZATION) + 1 + 2

BOND_FDIM == 14

\* size of the "morgan" generator, CircularFingerprint(radius=2, size=2048)
MORGAN_SIZE == 2048

\* the names registered in FEATURE_GENERATORS
FEATURE_GENERATORS == {"morgan"}

----------------------------------------------------------------------------
(* The molecule handle (RDKit Mol): atoms in index order, bonds in the     *)
(* molecule's own enumeration order, each with a begin and an end atom     *)
(* (0-based atom indices).                                                 *)

BondTypes == <<"SINGLE", "DOUBLE", "TRIPLE", "AROMATIC">>

\* an atom: atomic number and the hydrogens it carries without atoms of
\* their own; an atom that says nothing else is neutral, not a stereo
\* centre, not aromatic, and hybridized as its element usually is
Carbon == [z |-> 6, implicitHs |-> 0]

Hydrogen == [z |-> 1, implicitHs |-> 0]

Bond(b, e, k) == [begin |-> b, end |-> e, btype |-> BondTypes[((k - 1) % 4) + 1]]

\* the unordered atom pairs of n atoms, as <<i, j>> with i < j (0-based)
AtomPairs(n) == {p \in (0..n-1) \X (0..n-1) : p[1] < p[2]}

\* sequences of at most maxb bonds over the atom pairs P: at most one bond
\* per pair, either orientation, any order
RECURSIVE BondLists(_, _)
BondLists(P, maxb) ==
    IF maxb = 0 THEN {<< >>}
    ELSE LET shorter == BondLists(P, maxb - 1)
             longest == {l \in shorter : Len(l) = maxb - 1}
             free(l) == {p \in P : \A i \in 1..Len(l) :
                                     {l[i].begin, l[i].end} # {p[1], p[2]}}
         IN shorter
            \cup UNION { UNION { { Append(l, Bond(p[1], p[2], Len(l) + 1)),
                                   Append(l, Bond(p[2], p[1], Len(l) + 1)) } :
                                 p \in free(l) } : l \in longest }

Mol(n, l) == [atoms |-> [i \in 1..n |-> Carbon], bonds |-> l]

Molecules(maxa, maxb) ==
    UNION { { Mol(n, l) : l \in BondLists(AtomPairs(n), maxb) } : n \in 1..maxa }

GetNumAtoms(mol) == Len(mol.atoms)

GetNumHeavyAtoms(mol) == Cardinality({i \in 1..Len(mol.atoms) : mol.atoms[i].z > 1})

\* the 0-based indices of the atoms bonded to atom i
Neighbors(mol, i) ==
    {mol.bonds[k].end : k \in {k \in 1..Len(mol.bonds) : mol.bonds[k].begin = i}}
      \cup {mol.bonds[k].begin : k \in {k \in 1..Len(mol.bonds) : mol.bonds[k].end = i}}

GetAtomicNum(mol, i) == At(mol.atoms, i).z

GetTotalNumHs(mol, i) ==
    At(mol.atoms, i).implicitHs
      + Cardinality({j \in Neighbors(mol, i) : At(mol.atoms, j).z = 1})

GetTotalDegree(mol, i) == Cardinality(Neighbors(mol, i)) + At(mol.atoms, i).implicitHs

GetFormalCharge(mol, i) ==
    IF "charge" \in DOMAIN At(mol.atoms, i) THEN At(mol.atoms, i).charge ELSE 0

\* the chiral tag as the integer of the toolkit's enumeration
GetChiralTag(mol, i) ==
    IF "chiral" \in DOMAIN At(mol.atoms, i) THEN At(mol.atoms, i).chiral ELSE 0

GetHybridization(mol, i) ==
    IF "hybridization" \in DOMAIN At(mol.atoms, i) THEN At(mol.atoms, i).hybridization
    ELSE IF At(mol.atoms, i).z = 1 THEN "S" ELSE "SP3"

GetIsAromatic(mol, i) ==
    IF "aromatic" \in DOMAIN At(mol.atoms, i) THEN At(mol.atoms, i).aromatic ELSE FALSE

\* Atom.GetMass() in units of 1e-5: hydrogen, carbon, mendelevium
GetMass(mol, i) ==
    IF At(mol.atoms, i).z = 1 THEN 100800
    ELSE IF At(mol.atoms, i).z = 6 THEN 1201100
    ELSE 25800000

\* Chem.AddHs(mol): a new molecule in which every hydrogen an atom carried
\* without an atom of its own is an atom at the end of the atom list, bonded
\* to its atom by a bond at the end of the bond list
RECURSIVE AddHsFrom(_, _)
AddHsFrom(mol, i) ==
    IF i > Len(mol.atoms) THEN mol
    ELSE IF mol.atoms[i].implicitHs = 0 THEN AddHsFrom(mol, i + 1)
    ELSE AddHsFrom(
           [atoms |-> Append([mol.atoms EXCEPT ![i].implicitHs = @ - 1], Hydrogen),
            bonds |-> Append(mol.bonds,
                             [begin |-> i - 1, end |-> Len(mol.atoms),
                              btype |-> "SINGLE"])],
           i)

AddHs(mol) == AddHsFrom(mol, 1)

\* the lookup made with the atoms' indices in the padded table
GetBondBetweenAtoms_shifted(mol, i, j) ==
    LET hits == {k \in 1..Len(mol.bonds) :
                    {mol.bonds[k].begin, mol.bonds[k].end} = {i + 1, j + 1}}
    IN IF hits = {} \/ i = j THEN NoBond ELSE mol.bonds[CHOOSE k \in hits : TRUE]

\* Mol.GetBondBetweenAtoms(i, j): the bond joining i and j in either
\* orientation, NoBond when there is none
GetBondBetweenAtoms(mol, i, j) ==
    LET hits == {k \in 1..Len(mol.bonds) :
                    {mol.bonds[k].begin, mol.bonds[k].end} = {i, j}}
    IN IF hits = {} \/ i = j THEN NoBond ELSE mol.bonds[CHOOSE k \in hits : TRUE]

----------------------------------------------------------------------------
(* Atom feature encoder.  Entries are numbers; the mass entry, the only    *)
(* one that is not an integer, is counted in units of 1e-5.                *)

IndexOf(val, allowable_set) ==
    IF \E i \in 1..Len(allowable_set) : allowable_set[i] = val
    THEN CHOOSE i \in 1..Len(allowable_set) :
           /\ allowable_set[i] = val
           /\ \A j \in 1..(i - 1) : allowable_set[j] # val
    ELSE 0

\* deepchem.utils.molecule_feature_utils.one_hot_encode
one_hot_encode(val, allowable_set, include_unknown_set) ==
    LET one_hot_length == IF include_unknown_set THEN Len(allowable_set) + 1
                          ELSE Len(allowable_set)
        hit == IndexOf(val, allowable_set)
    IN [i \in 1..one_hot_length |->
          IF hit # 0 THEN (IF i = hit THEN 1 ELSE 0)
          ELSE IF include_unknown_set /\ i = one_hot_length THEN 1 ELSE 0]

\* the atomic number encoded as it is, not lowered by one
get_atomic_num_one_hot_raw(mol, i, allowable_set) ==
    one_hot_encode(GetAtomicNum(mol, i), allowable_set, TRUE)

get_atomic_num_one_hot(mol, i, allowable_set) ==
    one_hot_encode(GetAtomicNum(mol, i) - 1, allowable_set, TRUE)

get_atom_total_degree_one_hot(mol, i, allowable_set) ==
    one_hot_encode(GetTotalDegree(mol, i), allowable_set, TRUE)

get_atom_formal_charge_one_hot(mol, i, allowable_set) ==
    one_hot_encode(GetFormalCharge(mol, i), allowable_set, TRUE)

get_atom_chiral_tag_one_hot(mol, i, allowable_set) ==
    one_hot_encode(GetChiralTag(mol, i), allowable_set, TRUE)

get_atom_total_num_Hs_one_hot(mol, i, allowable_set) ==
    one_hot_encode(GetTotalNumHs(mol, i), allowable_set, TRUE)

get_atom_hybridization_one_hot(mol, i, allowable_set, include_unknown_set) ==
    one_hot_encode(GetHybridization(mol, i), allowable_set, include_unknown_set)

get_atom_is_in_aromatic_one_hot(mol, i) == <<IF GetIsAromatic(mol, i) THEN 1 ELSE 0>>

\* [atom.GetMass() * 0.01]
get_atom_mass(mol, i) == <<GetMass(mol, i) \div 100>>

\* an RDKit atom: atom idx of the molecule mol
Atom(mol, idx) == [mol |-> mol, idx |-> idx]

\* the zero tail of the only_atom_num mode one entry too long
OnlyAtomNumTail_long == Zeros(ATOM_FDIM - MAX_ATOMIC_NUM)

\* [0] * (ATOM_FDIM - MAX_ATOMIC_NUM - 1)
OnlyAtomNumTail == Zeros(ATOM_FDIM - MAX_ATOMIC_NUM - 1)

\* atom_features(atom, functional_groups, only_atom_num): atom is PyNone or
\* an Atom, functional_groups is PyNone or [list |-> ...]
atom_features(atom, functional_groups, only_atom_num) ==
    IF atom = PyNone THEN Zeros(ATOM_FDIM)
    ELSE IF only_atom_num
    THEN get_atomic_num_one_hot(atom.mol, atom.idx, ATOM_FEATURES.atomic_num)
           \o OnlyAtomNumTail
    ELSE LET features ==
               get_atomic_num_one_hot(atom.mol, atom.idx, ATOM_FEATURES.atomic_num)
                 \o get_atom_total_degree_one_hot(atom.mol, atom.idx, ATOM_FEATURES.degree)
                 \o get_atom_formal_charge_one_hot(atom.mol, atom.idx,
                                                   ATOM_FEATURES.formal_charge)
                 \o get_atom_chiral_tag_one_hot(atom.mol, atom.idx,
                                                ATOM_FEATURES.chiral_tag)
                 \o get_atom_total_num_Hs_one_hot(atom.mol, atom.idx, ATOM_FEATURES.num_Hs)
                 \o get_atom_hybridization_one_hot(atom.mol, atom.idx,
                                                   ATOM_FEATURES_HYBRIDIZATION, TRUE)
                 \o get_atom_is_in_aromatic_one_hot(atom.mol, atom.idx)
                 \o get_atom_mass(atom.mol, atom.idx)
         IN IF functional_groups # PyNone
            THEN features \o functional_groups.list
            ELSE features

----------------------------------------------------------------------------
(* Bond feature encoder.                                                   *)

\* deepchem.feat.graph_features.bond_features(bond, use_extended_chirality=True):
\* bond type (4), conjugated, in ring, stereo one-hot over 0..5 plus unknown
b_Feats(bond) ==
    [i \in 1..4 |-> IF bond.btype = BondTypes[i] THEN 1 ELSE 0]
      \o <<0, 0>> \o <<1, 0, 0, 0, 0, 0, 0>>

\* the present-bond marker left out
bond_features_noflag(bond) ==
    IF bond = NoBond
    THEN <<1>> \o Zeros(BOND_FDIM - 1)
    ELSE b_Feats(bond)

bond_features(bond) ==
    IF bond = NoBond
    THEN <<1>> \o Zeros(BOND_FDIM - 1)
    ELSE <<0>> \o b_Feats(bond)

----------------------------------------------------------------------------
(* map_reac_to_prod.  A dict is a function on its keys; the empty dict is  *)
(* the empty function << >>.                                               *)

\* Atom.GetAtomMapNum(): 0 for an atom without a map number
GetAtomMapNum(mol, i) ==
    IF "mapno" \in DOMAIN At(mol.atoms, i) THEN At(mol.atoms, i).mapno ELSE 0

\* an assignment that leaves an existing entry alone
DictSet_keepfirst(d, key, val) ==
    [k \in (DOMAIN d) \cup {key} |-> IF k \in DOMAIN d THEN d[k] ELSE val]

\* d[key] = val
DictSet(d, key, val) ==
    [k \in (DOMAIN d) \cup {key} |-> IF k = key THEN val ELSE d[k]]

\* the loop over the product's atoms, after its first n atoms
RECURSIVE ProdLoop(_, _, _)
ProdLoop(mol_prod, mapnos_reac, n) ==
    IF n = 0 THEN [prod_map_to_id |-> << >>, only_prod_ids |-> << >>]
    ELSE LET before == ProdLoop(mol_prod, mapnos_reac, n - 1)
             idx == n - 1
             mapno == GetAtomMapNum(mol_prod, idx)
         IN IF mapno > 0
            THEN [prod_map_to_id |-> DictSet(before.prod_map_to_id, mapno, idx),
                  only_prod_ids |-> IF mapno \notin mapnos_reac
                                    THEN Append(before.only_prod_ids, idx)
                                    ELSE before.only_prod_ids]
            ELSE [before EXCEPT !.only_prod_ids = Append(@, idx)]

\* the loop over the reactant's atoms, after its first n atoms
RECURSIVE ReacLoop(_, _, _)
ReacLoop(mol_reac, prod_map_to_id, n) ==
    IF n = 0 THEN [reac_id_to_prod_id |-> << >>, only_reac_ids |-> << >>]
    ELSE LET before == ReacLoop(mol_reac, prod_map_to_id, n - 1)
             idx == n - 1
             mapno == GetAtomMapNum(mol_reac, idx)
         IN IF mapno > 0 /\ mapno \in DOMAIN prod_map_to_id
            THEN [before EXCEPT !.reac_id_to_prod_id =
                                   DictSet(@, idx, prod_map_to_id[mapno])]
            ELSE [before EXCEPT !.only_reac_ids = Append(@, idx)]

\* map_reac_to_prod(mol_reac, mol_prod): the tuple
\* (reac_id_to_prod_id, only_prod_ids, only_reac_ids)
map_reac_to_prod(mol_reac, mol_prod) ==
    LET mapnos_reac == {GetAtomMapNum(mol_reac, i) :
                          i \in 0..(GetNumAtoms(mol_reac) - 1)}
        prod == ProdLoop(mol_prod, mapnos_reac, GetNumAtoms(mol_prod))
        reac == ReacLoop(mol_reac, prod.prod_map_to_id, GetNumAtoms(mol_reac))
    IN <<reac.reac_id_to_prod_id, prod.only_prod_ids, reac.only_reac_ids>>

----------------------------------------------------------------------------
(* Global features.                                                        *)

\* the bit one atom sets in the circular fingerprint: a stand-in for the
\* toolkit's hash of the atom environment, fixed so that the carbon of
\* methane sets bit 1264 (0-based) as in the doctest
MorganBit(mol, i) ==
    (1264 + 389 * (GetAtomicNum(mol, i) - 6) + 131 * GetTotalDegree(mol, i)
       + 17 * GetTotalNumHs(mol, i) + 2048 * 8 - 131 * 4 - 17 * 4) % MORGAN_SIZE

\* FEATURE_GENERATORS["morgan"].featurize(mol)[0]
MorganFeaturize(mol) ==
    LET bits == {MorganBit(mol, i) : i \in 0..(GetNumAtoms(mol) - 1)}
    IN [k \in 1..MORGAN_SIZE |-> IF (k - 1) \in bits THEN 1 ELSE 0]

\* Chem.MolFromSmiles('C')
Methane == [atoms |-> <<[z |-> 6, implicitHs |-> 4]>>, bonds |-> << >>]

\* the generator applied to whatever molecule comes
GeneratorBlock_applied(mol, generator) == MorganFeaturize(mol)

\* the block one recognized generator contributes
GeneratorBlock(mol, generator) ==
    IF GetNumHeavyAtoms(mol) > 0 THEN MorganFeaturize(mol)
    ELSE Zeros(Len(MorganFeaturize(Methane)))

\* the loop of generate_global_features over the first n names:
\* the features collected and the warnings logged
RECURSIVE GlobalLoop(_, _, _)
GlobalLoop(mol, features_generators, n) ==
    IF n = 0 THEN [features |-> << >>, warnings |-> << >>]
    ELSE LET before == GlobalLoop(mol, features_generators, n - 1)
             generator == features_generators[n]
         IN IF generator \in FEATURE_GENERATORS
            THEN [before EXCEPT !.features = @ \o GeneratorBlock(mol, generator)]
            ELSE [before EXCEPT !.warnings = Append(@, <<generator, "generator",
                                   "is", "not", "available", "in", "DMPNN">>)]

\* a loop that takes the names off the list as it goes
GeneratorsAfterLoop_consumed(features_generators) == << >>

\* what the loop of generate_global_features leaves in the list it was
\* handed, which is the featurizer's own list: it only reads it
GeneratorsAfterLoop(features_generators) == features_generators

\* the loop run over the distinct names of the request
generate_global_features_set(mol, features_generators) ==
    LET keep == {k \in 1..Len(features_generators) :
                   \A j \in 1..(k - 1) : features_generators[j] # features_generators[k]}
        names == [i \in 1..Cardinality(keep) |->
                    features_generators[CHOOSE k \in keep :
                                          Cardinality({j \in keep : j <= k}) = i]]
    IN GlobalLoop(mol, names, Len(names))

\* the call given up at the first name that is not registered
generate_global_features_strict(mol, features_generators) ==
    LET g == GlobalLoop(mol, features_generators, Len(features_generators))
    IN IF g.warnings # << >> THEN [g EXCEPT !.features = << >>] ELSE g

\* generate_global_features(mol, features_generators): the values are
\* numbers, none of them NaN, so the NaN replacement keeps them
generate_global_features(mol, features_generators) ==
    GlobalLoop(mol, features_generators, Len(features_generators))

----------------------------------------------------------------------------
(* _MapperDMPNN.                                                           *)

\* the pair visited first by the two nested loops of _generate_mapping,
\* <<0, 0>> when the loops have no iteration
FirstPair(n) == IF n >= 2 THEN <<1, 2>> ELSE <<0, 0>>

\* the pair visited after (x, y): for a1 in range(1, n + 1):
\*                                  for a2 in range(a1 + 1, n + 1)
NextPair(x, y, n) ==
    IF y < n THEN <<x, y + 1>>
    ELSE IF x + 2 <= n THEN <<x + 1, x + 2>>
    ELSE <<0, 0>>

\* the bond features put in front of the atom features
ExtendConcatFeature_bondfirst(table, fazp, a, bond_feature) ==
    Append(table, bond_feature \o At(fazp, a))

\* _extend_concat_feature: one more row, the features of atom a followed
\* by the bond features
ExtendConcatFeature(table, fazp, a, bond_feature) ==
    Append(table, At(fazp, a) \o bond_feature)

\* _update_concat_vector for an existing bond: two rows, a1 first
UpdateConcatVector(table, fazp, x, y, bond) ==
    LET f_bond == bond_features(bond)
    IN ExtendConcatFeature(ExtendConcatFeature(table, fazp, x, f_bond),
                           fazp, y, f_bond)

\* both new bonds recorded at a2
UpdateIncoming_same(atib, x, y, nb) ==
    [atib EXCEPT ![y + 1] = Append(Append(@, nb + 1), nb + 2)]

\* the new bond put at the head of the incoming list
UpdateIncoming_front(atib, x, y, nb) ==
    LET s1 == [atib EXCEPT ![y + 1] = <<nb + 1>> \o @]
    IN [s1 EXCEPT ![x + 1] = <<nb + 2>> \o @]

\* the two appends with the atoms exchanged
UpdateIncoming_swapped(atib, x, y, nb) ==
    LET s1 == [atib EXCEPT ![x + 1] = Append(@, nb + 1)]
    IN [s1 EXCEPT ![y + 1] = Append(@, nb + 2)]

\* _update_secondary_mappings, atom_to_incoming_bonds: b1 = nb + 1 arrives
\* at a2, b2 = nb + 2 arrives at a1
UpdateIncoming(atib, x, y, nb) ==
    LET b1 == nb + 1
        b2 == nb + 2
        s1 == [atib EXCEPT ![y + 1] = Append(@, b1)]
    IN [s1 EXCEPT ![x + 1] = Append(@, b2)]

\* the origins recorded in the other order
UpdateIniAtom_swapped(b2a, x, y) == Append(Append(b2a, y), x)

\* origins recorded as positions in the unpadded atom table
UpdateIniAtom_zerobased(b2a, x, y) == Append(Append(b2a, x - 1), y - 1)

\* _update_secondary_mappings, bond_to_ini_atom: b1 starts at a1, b2 at a2
UpdateIniAtom(b2a, x, y) == Append(Append(b2a, x), y)

\* each bond recorded as its own reverse
UpdateRevb_self(revb, nb) == Append(Append(revb, nb + 1), nb + 2)

\* the two indices taken one too low
UpdateRevb_low(revb, nb) == Append(Append(revb, nb + 1), nb)

\* _update_secondary_mappings, b2revb: b1 and b2 are each other's reverse
UpdateRevb(revb, nb) == Append(Append(revb, nb + 2), nb + 1)

\* the counter stepped once per bond instead of once per directed bond
IncrNumBonds_one(nb) == nb + 1

\* the step of the bond counter in _generate_mapping
IncrNumBonds(nb) == nb + 2

\* padding to the largest list length without the floor of 1
ModifyBasedOnMaxBonds_nofloor(atib, n) ==
    LET max_num_bonds == Max({Len(atib[i]) : i \in 1..Len(atib)})
    IN [a \in 1..(n + 1) |-> atib[a] \o Zeros(max_num_bonds - Len(atib[a]))]

\* the zeros put in front of the entries
ModifyBasedOnMaxBonds_front(atib, n) ==
    LET max_num_bonds == Max({1} \cup {Len(atib[i]) : i \in 1..Len(atib)})
    IN [a \in 1..(n + 1) |-> Zeros(max_num_bonds - Len(atib[a])) \o atib[a]]

\* _modify_based_on_max_bonds
ModifyBasedOnMaxBonds(atib, n) ==
    LET max_num_bonds == Max({1} \cup {Len(atib[i]) : i \in 1..Len(atib)})
    IN [a \in 1..(n + 1) |-> atib[a] \o Zeros(max_num_bonds - Len(atib[a]))]

\* the padded per-atom table taken as the mapping, without the indexing
IndexByIniAtom_atoms(atib, b2a) == atib

\* np.asarray(atom_to_incoming_bonds)[bond_to_ini_atom]: a new array with
\* one copy of the origin atom's row per bond index
IndexByIniAtom(atib, b2a) == [b \in 1..Len(b2a) |-> At(atib, b2a[b])]

\* the reverse taken out and the row closed up, zeros at the end
ReplaceInRow_compact(row, i) ==
    LET kept == SelectSeq(row, LAMBDA x : x # i)
    IN kept \o Zeros(Len(row) - Len(kept))

\* the row left as it is
ReplaceInRow_keep(row, i) == row

\* row[np.where(row == i)] = 0
ReplaceInRow(row, i) == [k \in 1..Len(row) |-> IF row[k] = i THEN 0 ELSE row[k]]

\* the rows of one origin atom being one list: stripping one strips all
ReplaceRevRow_aliased(mp, b2a, cnt, i) ==
    [r \in 1..Len(mp) |-> IF b2a[r] = b2a[cnt + 1] THEN ReplaceInRow(mp[r], i)
                           ELSE mp[r]]

\* self.mapping[count][np.where(self.mapping[count] == i)] = 0: row count
\* of the array, which holds its own copy of each origin's list
ReplaceRevRow(mp, b2a, cnt, i) == [mp EXCEPT ![cnt + 1] = ReplaceInRow(@, i)]

\* __init__ up to the call of _generate_mapping
MapperInit ==
    /\ pc = "construct"
    /\ num_atoms' = Len(f_atoms_zero_padded) - 1
    /\ num_bonds' = 0
    /\ f_ini_atoms_bonds_zero_padded' = <<Zeros(concat_fdim)>>
    /\ atom_to_incoming_bonds' = [i \in 1..Len(f_atoms_zero_padded) |-> << >>]
    /\ bond_to_ini_atom' = <<0>>
    /\ b2revb' = <<0>>
    /\ mapping' = << >>
    /\ a1' = FirstPair(Len(f_atoms_zero_padded) - 1)[1]
    /\ a2' = FirstPair(Len(f_atoms_zero_padded) - 1)[2]
    /\ pc' = IF FirstPair(Len(f_atoms_zero_padded) - 1) = <<0, 0>>
             THEN "modify" ELSE "pairs"
    /\ UNCHANGED outer
    /\ UNCHANGED <<datapoint, concat_fdim, f_atoms_zero_padded, count>>

\* one iteration of the nested loops of _generate_mapping
PairIteration ==
    /\ pc = "pairs"
    /\ LET bond == GetBondBetweenAtoms(datapoint, a1 - 1, a2 - 1)
           next == NextPair(a1, a2, num_atoms)
       IN /\ IF bond = NoBond
             THEN UNCHANGED <<f_ini_atoms_bonds_zero_padded, atom_to_incoming_bonds,
                              bond_to_ini_atom, b2revb, num_bonds>>
             ELSE /\ f_ini_atoms_bonds_zero_padded' =
                        UpdateConcatVector(f_ini_atoms_bonds_zero_padded,
                                           f_atoms_zero_padded, a1, a2, bond)
                  /\ atom_to_incoming_bonds' =
                        UpdateIncoming(atom_to_incoming_bonds, a1, a2, num_bonds)
                  /\ bond_to_ini_atom' = UpdateIniAtom(bond_to_ini_atom, a1, a2)
                  /\ b2revb' = UpdateRevb(b2revb, num_bonds)
                  /\ num_bonds' = IncrNumBonds(num_bonds)
          /\ a1' = next[1]
          /\ a2' = next[2]
          /\ pc' = IF next = <<0, 0>> THEN "modify" ELSE "pairs"
    /\ UNCHANGED outer
    /\ UNCHANGED <<datapoint, concat_fdim, f_atoms_zero_padded, num_atoms,
                   mapping, count>>

\* _generate_mapping after the loops: pad the incoming lists
ModifyStep ==
    /\ pc = "modify"
    /\ atom_to_incoming_bonds' =
          ModifyBasedOnMaxBonds(atom_to_incoming_bonds, num_atoms)
    /\ pc' = "index"
    /\ UNCHANGED outer
    /\ UNCHANGED <<datapoint, concat_fdim, f_atoms_zero_padded, num_atoms,
                   num_bonds, f_ini_atoms_bonds_zero_padded, bond_to_ini_atom,
                   b2revb, mapping, a1, a2, count>>

\* _generate_mapping: the bond-indexed expansion
IndexStep ==
    /\ pc = "index"
    /\ mapping' = IndexByIniAtom(atom_to_incoming_bonds, bond_to_ini_atom)
    /\ count' = 0
    /\ pc' = "rev"
    /\ UNCHANGED outer
    /\ UNCHANGED <<datapoint, concat_fdim, f_atoms_zero_padded, num_atoms,
                   num_bonds, f_ini_atoms_bonds_zero_padded,
                   atom_to_incoming_bonds, bond_to_ini_atom, b2revb, a1, a2>>

\* one iteration of the loop of _replace_rev_bonds
ReplaceRevStep ==
    /\ pc = "rev"
    /\ mapping' = ReplaceRevRow(mapping, bond_to_ini_atom, count, At(b2revb, count))
    /\ count' = count + 1
    /\ pc' = IF count + 1 = Len(b2revb) THEN "mapped" ELSE "rev"
    /\ UNCHANGED outer
    /\ UNCHANGED <<datapoint, concat_fdim, f_atoms_zero_padded, num_atoms,
                   num_bonds, f_ini_atoms_bonds_zero_padded,
                   atom_to_incoming_bonds, bond_to_ini_atom, b2revb, a1, a2>>

----------------------------------------------------------------------------
(* The mapper on its own: _MapperDMPNN(datapoint, concat_fdim,             *)
(* f_atoms_zero_padded) for every molecule within the bounds.              *)

TableWidth == 1     \* width of the atom feature rows handed to the mapper

\* an atom feature table with a zero row 0 and a distinct row per atom
AtomTable(mol, w) ==
    <<Zeros(w)>> \o [a \in 1..GetNumAtoms(mol) |-> [i \in 1..w |-> a]]

MapperUnset ==
    /\ num_atoms = None
    /\ num_bonds = None
    /\ f_ini_atoms_bonds_zero_padded = None
    /\ atom_to_incoming_bonds = None
    /\ bond_to_ini_atom = None
    /\ b2revb = None
    /\ mapping = None
    /\ a1 = None
    /\ a2 = None
    /\ count = None

\* no featurizer and no call of _featurize around the mapper
NoFeaturizer ==
    /\ self_features_generators = PyNone
    /\ self_is_adding_hs = FALSE
    /\ arg = PyNone
    /\ global_features = None
    /\ f_atoms = None
    /\ edge_index = None
    /\ log = << >>
    /\ result = PyNone
    /\ remembered = PyNone
    /\ suspended = PyNone

Init ==
    /\ pc = "construct"
    /\ datapoint \in Molecules(MaxAtoms, MaxBonds)
    /\ f_atoms_zero_padded = AtomTable(datapoint, TableWidth)
    /\ concat_fdim = TableWidth + BOND_FDIM
    /\ MapperUnset
    /\ NoFeaturizer

Next ==
    \/ MapperInit
    \/ PairIteration
    \/ ModifyStep
    \/ IndexStep
    \/ ReplaceRevStep

Spec == Init /\ [][Next]_vars

----------------------------------------------------------------------------
(* The mapper on the molecule of the class documentation,                  *)
(*     1 --- 2 --- 3                                                       *)
(*     |     |                                                             *)
(*     5     4                                                             *)
(* for every order and orientation in which the molecule may list its      *)
(* four bonds.                                                             *)

DocPairs == {<<0, 1>>, <<1, 2>>, <<1, 3>>, <<0, 4>>}

DocMolecules ==
    { Mol(5, l) : l \in {x \in BondLists(DocPairs, Cardinality(DocPairs)) :
                            Len(x) = Cardinality(DocPairs)} }

InitDoc ==
    /\ pc = "construct"
    /\ datapoint \in DocMolecules
    /\ f_atoms_zero_padded = AtomTable(datapoint, TableWidth)
    /\ concat_fdim = TableWidth + BOND_FDIM
    /\ MapperUnset
    /\ NoFeaturizer

SpecDoc == InitDoc /\ [][Next]_vars

----------------------------------------------------------------------------
(* DMPNNFeaturizer._featurize, one action per step of its body.            *)

\* isinstance(datapoint, Chem.rdchem.Mol)
IsMol(d) == "atoms" \in DOMAIN d

\* the ValueError of _featurize, its message word by word
InputTypeError ==
    [raised |-> "ValueError",
     message |-> <<"Feature", "field", "should", "contain", "smiles", "for",
                   "DMPNN", "featurizer!">>]

\* the hydrogens never added
Validated_nohs(d, is_adding_hs) ==
    IF IsMol(d)
    THEN [ok |-> TRUE, mol |-> d]
    ELSE [ok |-> FALSE, error |-> InputTypeError]

\* the type test dropped: whatever is passed goes on
Validated_unchecked(d, is_adding_hs) ==
    [ok |-> TRUE, mol |-> IF is_adding_hs /\ IsMol(d) THEN AddHs(d) ELSE d]

\* the first statement of _featurize: the molecule to go on with, or the
\* error to raise
Validated(d, is_adding_hs) ==
    IF IsMol(d)
    THEN [ok |-> TRUE, mol |-> IF is_adding_hs THEN AddHs(d) ELSE d]
    ELSE [ok |-> FALSE, error |-> InputTypeError]

\* _construct_bond_index: [src, dest], two columns per bond of the molecule
RECURSIVE EdgeLists(_, _)
EdgeLists(bonds, n) ==
    IF n = 0 THEN <<<< >>, << >>>>
    ELSE LET before == EdgeLists(bonds, n - 1)
             start == bonds[n].begin
             end == bonds[n].end
         IN <<before[1] \o <<start, end>>, before[2] \o <<end, start>>>>

\* one column per bond only
construct_bond_index_undirected(mol) ==
    <<[k \in 1..Len(mol.bonds) |-> mol.bonds[k].begin],
      [k \in 1..Len(mol.bonds) |-> mol.bonds[k].end]>>

construct_bond_index(mol) == EdgeLists(mol.bonds, Len(mol.bonds))

GraphData(nf, ei, gf, mp, nfzp, cfzp) ==
    [node_features |-> nf,
     edge_index |-> ei,
     global_features |-> gf,
     mapping |-> mp,
     node_features_zero_padded |-> nfzp,
     concatenated_features_zero_padded |-> cfzp]

\* the names of the frame and the fields of the mapper, none of them bound
FrameUnset ==
    /\ datapoint = None
    /\ concat_fdim = None
    /\ f_atoms_zero_padded = None
    /\ global_features = None
    /\ f_atoms = None
    /\ edge_index = None
    /\ MapperUnset

\* isinstance test, AddHs, and the three dimensions
ValidateStep ==
    /\ pc = "validate"
    /\ LET v == Validated(arg, self_is_adding_hs)
       IN IF v.ok
          THEN /\ datapoint' = v.mol
               /\ concat_fdim' = ATOM_FDIM + BOND_FDIM
               /\ pc' = "global"
               /\ UNCHANGED result
          ELSE /\ result' = v.error
               /\ pc' = "raised"
               /\ UNCHANGED <<datapoint, concat_fdim>>
    /\ UNCHANGED <<selfvars, arg, global_features, f_atoms, edge_index, log,
                   remembered, suspended, f_atoms_zero_padded, num_atoms, num_bonds,
                   f_ini_atoms_bonds_zero_padded, atom_to_incoming_bonds,
                   bond_to_ini_atom, b2revb, mapping, a1, a2, count>>

\* global features: np.empty(0) unless generators are configured
GlobalStep ==
    /\ pc = "global"
    /\ IF self_features_generators # PyNone
       THEN LET g == generate_global_features(datapoint,
                                              self_features_generators.list)
            IN /\ global_features' = g.features
               /\ log' = log \o g.warnings
               /\ self_features_generators' =
                     [list |-> GeneratorsAfterLoop(self_features_generators.list)]
       ELSE /\ global_features' = << >>
            /\ UNCHANGED <<log, self_features_generators>>
    /\ pc' = "atoms"
    /\ UNCHANGED <<self_is_adding_hs, arg, datapoint, f_atoms, edge_index,
                   result, remembered, suspended, mvars>>

\* the atom feature matrix
AtomsStep ==
    /\ pc = "atoms"
    /\ f_atoms' = [a \in 1..GetNumAtoms(datapoint) |->
                      atom_features(Atom(datapoint, a - 1), PyNone, FALSE)]
    /\ pc' = "pad"
    /\ UNCHANGED <<selfvars, arg, datapoint, global_features, edge_index, log,
                   result, remembered, suspended, mvars>>

\* the zero row put in front of the atom feature matrix
PadStep ==
    /\ pc = "pad"
    /\ f_atoms_zero_padded' = <<Zeros(ATOM_FDIM)>> \o f_atoms
    /\ pc' = "construct"
    /\ UNCHANGED <<selfvars, fvars, remembered, suspended, datapoint, concat_fdim,
                   num_atoms, num_bonds, f_ini_atoms_bonds_zero_padded,
                   atom_to_incoming_bonds, bond_to_ini_atom, b2revb, mapping,
                   a1, a2, count>>

\* the edge index, once the mapper is done
EdgeStep ==
    /\ pc = "mapped"
    /\ edge_index' = construct_bond_index(datapoint)
    /\ pc' = "edge"
    /\ UNCHANGED <<selfvars, arg, datapoint, global_features, f_atoms, log,
                   result, remembered, suspended, mvars>>

\* return GraphData(...): the frame and the mapper are gone with the call
ReturnStep ==
    /\ pc = "edge"
    /\ result' = GraphData(f_atoms, edge_index, global_features, mapping,
                           f_atoms_zero_padded, f_ini_atoms_bonds_zero_padded)
    /\ pc' = "done"
    /\ datapoint' = None
    /\ concat_fdim' = None
    /\ f_atoms_zero_padded' = None
    /\ global_features' = None
    /\ f_atoms' = None
    /\ edge_index' = None
    /\ num_atoms' = None
    /\ num_bonds' = None
    /\ f_ini_atoms_bonds_zero_padded' = None
    /\ atom_to_incoming_bonds' = None
    /\ bond_to_ini_atom' = None
    /\ b2revb' = None
    /\ mapping' = None
    /\ a1' = None
    /\ a2' = None
    /\ count' = None
    /\ UNCHANGED <<selfvars, arg, log, remembered, suspended>>

NextFeaturize ==
    \/ ValidateStep
    \/ GlobalStep
    \/ AtomsStep
    \/ PadStep
    \/ MapperInit
    \/ PairIteration
    \/ ModifyStep
    \/ IndexStep
    \/ ReplaceRevStep
    \/ EdgeStep
    \/ ReturnStep

----------------------------------------------------------------------------
(* One call of _featurize, for every input and featurizer within bounds.   *)

FMaxAtoms == 2      \* atoms of a molecule handed to _featurize
FMaxBonds == 1      \* bonds of a molecule handed to _featurize
FMaxHs == 1         \* hydrogens without an atom of their own, on atom 0

\* the molecule with h such hydrogens on its first atom
WithHs(mol, h) == [mol EXCEPT !.atoms[1].implicitHs = h]

\* two bonded hydrogen atoms: a molecule without heavy atoms
H2 == [atoms |-> <<Hydrogen, Hydrogen>>, bonds |-> <<Bond(0, 1, 1)>>]

\* a datapoint that is no molecule handle: a SMILES string
NotAMol == [str |-> "CC"]

FeaturizeInputs ==
    {WithHs(m, h) : <<m, h>> \in Molecules(FMaxAtoms, FMaxBonds) \X (0..FMaxHs)}
      \cup {H2, NotAMol}

\* the settings of features_generators: None, or a list of names
GeneratorSettings ==
    {PyNone} \cup
    {[list |-> l] : l \in {<< >>, <<"morgan">>, <<"rdkit_desc">>,
                           <<"rdkit_desc", "morgan">>, <<"morgan", "morgan">>}}

\* DMPNNFeaturizer.__init__
FeaturizerInit ==
    /\ self_features_generators \in GeneratorSettings
    /\ self_is_adding_hs \in BOOLEAN

InitFeaturize ==
    /\ FeaturizerInit
    /\ pc = "validate"
    /\ arg \in FeaturizeInputs
    /\ FrameUnset
    /\ log = << >>
    /\ result = PyNone
    /\ remembered = PyNone
    /\ suspended = PyNone

SpecFeaturize == InitFeaturize /\ [][NextFeaturize]_vars

----------------------------------------------------------------------------
(* A featurizer used for call after call.                                  *)

SMaxAtoms == 2      \* atoms of a molecule of the session

\* the chain 0 - 1 - ... - (n-1)
Chain(n) == Mol(n, [k \in 1..(n - 1) |-> Bond(k - 1, k, k)])

SessionInputs ==
    {WithHs(Chain(n), h) : <<n, h>> \in (1..SMaxAtoms) \X (0..FMaxHs)}
      \cup {NotAMol}

\* a call of _featurize(d) on the featurizer
EnterStep ==
    /\ pc \in {"idle", "done", "raised"}
    /\ \E d \in SessionInputs :
          /\ arg' = d
          /\ remembered' = IF remembered # PyNone /\ remembered.arg # d
                           THEN [remembered EXCEPT !.others = TRUE]
                           ELSE remembered
    /\ result' = PyNone
    /\ log' = << >>
    /\ pc' = "validate"
    /\ UNCHANGED <<selfvars, datapoint, global_features, f_atoms, edge_index, mvars,
                   suspended>>

\* keep the record of the call that has just returned, to compare later
\* records with
RememberStep ==
    /\ pc = "done"
    /\ remembered = PyNone
    /\ remembered' = [arg |-> arg, result |-> result, others |-> FALSE]
    /\ UNCHANGED <<pc, selfvars, fvars, datapoint, mvars, suspended>>

NextSession ==
    \/ NextFeaturize
    \/ EnterStep
    \/ RememberStep

InitSession ==
    /\ FeaturizerInit
    /\ pc = "idle"
    /\ arg = PyNone
    /\ FrameUnset
    /\ log = << >>
    /\ result = PyNone
    /\ remembered = PyNone
    /\ suspended = PyNone

SpecSession == InitSession /\ [][NextSession]_vars

----------------------------------------------------------------------------
(* Two calls of _featurize in flight on one featurizer, their steps taken  *)
(* in any order.  Each call has its own frame (its datapoint, its locals,  *)
(* the mapper it constructed and that mapper's fields); the featurizer's   *)
(* fields are the same object for both.  A molecule is first featurized    *)
(* alone and its record remembered.                                        *)

IMaxAtoms == 2      \* atoms of a molecule of the interleaved calls

\* chains with one hydrogen to add on the first atom
InterleavedInputs == {WithHs(Chain(n), 1) : n \in 1..IMaxAtoms}

\* the frame of the running call
Frame ==
    [pc |-> pc, arg |-> arg, datapoint |-> datapoint,
     global_features |-> global_features, f_atoms |-> f_atoms,
     edge_index |-> edge_index, log |-> log, result |-> result,
     concat_fdim |-> concat_fdim, f_atoms_zero_padded |-> f_atoms_zero_padded,
     num_atoms |-> num_atoms, num_bonds |-> num_bonds,
     f_ini_atoms_bonds_zero_padded |-> f_ini_atoms_bonds_zero_padded,
     atom_to_incoming_bonds |-> atom_to_incoming_bonds,
     bond_to_ini_atom |-> bond_to_ini_atom, b2revb |-> b2revb,
     mapping |-> mapping, a1 |-> a1, a2 |-> a2, count |-> count]

\* a call of _featurize(d) on the featurizer while no call is running
InterleavedEnterStep ==
    /\ pc \in {"idle", "done", "raised"}
    /\ \E d \in InterleavedInputs : arg' = d
    /\ result' = PyNone
    /\ log' = << >>
    /\ pc' = "validate"
    /\ UNCHANGED <<selfvars, datapoint, global_features, f_atoms, edge_index, mvars,
                   remembered, suspended>>

\* a second call, on another molecule, starts while a call is running
InterleaveStep ==
    /\ pc \notin {"idle", "done", "raised"}
    /\ suspended = PyNone
    /\ remembered # PyNone
    /\ \E d \in InterleavedInputs :
          /\ d # arg
          /\ arg' = d
    /\ suspended' = Frame
    /\ pc' = "validate"
    /\ result' = PyNone
    /\ log' = << >>
    /\ datapoint' = None
    /\ concat_fdim' = None
    /\ f_atoms_zero_padded' = None
    /\ global_features' = None
    /\ f_atoms' = None
    /\ edge_index' = None
    /\ num_atoms' = None
    /\ num_bonds' = None
    /\ f_ini_atoms_bonds_zero_padded' = None
    /\ atom_to_incoming_bonds' = None
    /\ bond_to_ini_atom' = None
    /\ b2revb' = None
    /\ mapping' = None
    /\ a1' = None
    /\ a2' = None
    /\ count' = None
    /\ UNCHANGED <<selfvars, remembered>>

\* the running call stops where it is and the other call goes on
SwitchStep ==
    /\ suspended # PyNone
    /\ suspended' = Frame
    /\ pc' = suspended.pc
    /\ arg' = suspended.arg
    /\ datapoint' = suspended.datapoint
    /\ global_features' = suspended.global_features
    /\ f_atoms' = suspended.f_atoms
    /\ edge_index' = suspended.edge_index
    /\ log' = suspended.log
    /\ result' = suspended.result
    /\ concat_fdim' = suspended.concat_fdim
    /\ f_atoms_zero_padded' = suspended.f_atoms_zero_padded
    /\ num_atoms' = suspended.num_atoms
    /\ num_bonds' = suspended.num_bonds
    /\ f_ini_atoms_bonds_zero_padded' = suspended.f_ini_atoms_bonds_zero_padded
    /\ atom_to_incoming_bonds' = suspended.atom_to_incoming_bonds
    /\ bond_to_ini_atom' = suspended.bond_to_ini_atom
    /\ b2revb' = suspended.b2revb
    /\ mapping' = suspended.mapping
    /\ a1' = suspended.a1
    /\ a2' = suspended.a2
    /\ count' = suspended.count
    /\ UNCHANGED <<selfvars, remembered>>

NextInterleaved ==
    \/ NextFeaturize
    \/ InterleavedEnterStep
    \/ RememberStep
    \/ InterleaveStep
    \/ SwitchStep

InitInterleaved ==
    /\ self_features_generators \in {PyNone, [list |-> <<"rdkit_desc", "morgan">>]}
    /\ self_is_adding_hs \in BOOLEAN
    /\ pc = "idle"
    /\ arg = PyNone
    /\ FrameUnset
    /\ log = << >>
    /\ result = PyNone
    /\ remembered = PyNone
    /\ suspended = PyNone

SpecInterleaved == InitInterleaved /\ [][NextInterleaved]_vars

----------------------------------------------------------------------------
(* The functions of the module called on their own, next to calls of       *)
(* _featurize: arg holds the function's name and its arguments.            *)

MaxGroups == 1      \* entries of a functional-group block
MaxMapAtoms == 2    \* atoms of a reactant or product
MaxMapNum == 2      \* largest atom map number

\* single atoms with every attribute set: hydrogen, carbon, mendelevium
\* (atomic number 101); hydrogen counts, charges, chiral tags and
\* hybridizations inside and outside the allowable sets
AtomSamples ==
    {Atom([atoms |-> <<[z |-> z, implicitHs |-> h, charge |-> c, chiral |-> t,
                        hybridization |-> y, aromatic |-> r]>>,
           bonds |-> << >>], 0) :
       <<z, h, c, t, y, r>> \in {1, 6, 101} \X {0, 6} \X {0, 3} \X {0, 4}
                                  \X {"SP3", "S"} \X BOOLEAN}

FunctionalGroupSettings ==
    {PyNone} \cup {[list |-> [i \in 1..n |-> 1]] : n \in 0..MaxGroups}

AtomFeaturesInputs ==
    {[fn |-> "atom_features", atom |-> a, functional_groups |-> g, only_atom_num |-> o] :
       <<a, g, o>> \in (AtomSamples \cup {PyNone}) \X FunctionalGroupSettings \X BOOLEAN}

BondFeaturesInputs ==
    {[fn |-> "bond_features", bond |-> b] :
       b \in {NoBond} \cup {Bond(0, 1, k) : k \in 1..Len(BondTypes)}}

\* n atoms without bonds, atom i carrying the map number nos[i]
MappedMol(nos) == [atoms |-> [i \in 1..Len(nos) |-> [z |-> 6, implicitHs |-> 0,
                                                      mapno |-> nos[i]]],
                   bonds |-> << >>]

MappedMols ==
    UNION { {MappedMol(nos) : nos \in [1..n -> 0..MaxMapNum]} : n \in 1..MaxMapAtoms }

MapReacToProdInputs ==
    {[fn |-> "map_reac_to_prod", mol_reac |-> r, mol_prod |-> p] :
       <<r, p>> \in MappedMols \X MappedMols}

AtomFeaturesCall ==
    /\ pc = "call"
    /\ arg.fn = "atom_features"
    /\ result' = [returned |-> atom_features(arg.atom, arg.functional_groups,
                                             arg.only_atom_num)]
    /\ pc' = "returned"
    /\ UNCHANGED <<selfvars, arg, datapoint, global_features, f_atoms, edge_index,
                   log, remembered, suspended, mvars>>

BondFeaturesCall ==
    /\ pc = "call"
    /\ arg.fn = "bond_features"
    /\ result' = [returned |-> bond_features(arg.bond)]
    /\ pc' = "returned"
    /\ UNCHANGED <<selfvars, arg, datapoint, global_features, f_atoms, edge_index,
                   log, remembered, suspended, mvars>>

MapReacToProdCall ==
    /\ pc = "call"
    /\ arg.fn = "map_reac_to_prod"
    /\ result' = [returned |-> map_reac_to_prod(arg.mol_reac, arg.mol_prod)]
    /\ pc' = "returned"
    /\ UNCHANGED <<selfvars, arg, datapoint, global_features, f_atoms, edge_index,
                   log, remembered, suspended, mvars>>

InitCalls ==
    /\ pc = "call"
    /\ arg \in AtomFeaturesInputs \cup BondFeaturesInputs \cup MapReacToProdInputs
    /\ self_features_generators = PyNone
    /\ self_is_adding_hs = FALSE
    /\ FrameUnset
    /\ log = << >>
    /\ result = PyNone
    /\ remembered = PyNone
    /\ suspended = PyNone

InitModule == InitCalls \/ InitFeaturize

NextModule ==
    \/ AtomFeaturesCall
    \/ BondFeaturesCall
    \/ MapReacToProdCall
    \/ NextFeaturize

SpecModule == InitModule /\ [][NextModule]_vars

----------------------------------------------------------------------------
(* The molecule as a graph, read off the molecule handle alone: what the   *)
(* statements about the mapper are measured against.                       *)

\* the bonded atom pairs <<x, y>>, x < y, atoms numbered from 1
BondedPairs(mol) ==
    { IF mol.bonds[k].begin < mol.bonds[k].end
      THEN <<mol.bonds[k].begin + 1, mol.bonds[k].end + 1>>
      ELSE <<mol.bonds[k].end + 1, mol.bonds[k].begin + 1>> :
        k \in 1..Len(mol.bonds) }

LexLess(p, q) == p[1] < q[1] \/ (p[1] = q[1] /\ p[2] < q[2])

\* position of the bonded pair p when the bonded pairs are sorted by
\* increasing first atom, then increasing second atom
LexRank(mol, p) == Cardinality({q \in BondedPairs(mol) : LexLess(q, p)}) + 1

PairOfRank(mol, k) == CHOOSE p \in BondedPairs(mol) : LexRank(mol, p) = k

DirectedBonds(mol) == 1..(2 * Cardinality(BondedPairs(mol)))

\* origin and destination atom of directed bond b when the k-th pair gets
\* 2k-1 (first atom to second) and 2k (second atom to first)
RefOrigin(mol, b) ==
    LET p == PairOfRank(mol, (b + 1) \div 2)
    IN IF b % 2 = 1 THEN p[1] ELSE p[2]

RefDest(mol, b) ==
    LET p == PairOfRank(mol, (b + 1) \div 2)
    IN IF b % 2 = 1 THEN p[2] ELSE p[1]

RefReverse(b) == IF b % 2 = 1 THEN b + 1 ELSE b - 1

\* number of bonds at atom a (numbered from 1)
Degree(mol, a) == Cardinality({p \in BondedPairs(mol) : a \in {p[1], p[2]}})

NonZero(row) == {k \in 1..Len(row) : row[k] # 0}

LoopsDone == pc \in {"modify", "index", "rev", "mapped"}

Padded == pc \in {"index", "rev", "mapped"}

----------------------------------------------------------------------------
\* C1: in the final mapping, the non-zero entries of row b (b >= 1) are
\* exactly the directed bonds c that arrive at the origin atom of b, other
\* than the reverse of b, each listed once; all other entries are 0.
C1_MappingRows ==
    pc = "mapped" =>
      \A b \in DirectedBonds(datapoint) :
        LET row == At(mapping, b)
            expected == {c \in DirectedBonds(datapoint) :
                           /\ RefDest(datapoint, c) = RefOrigin(datapoint, b)
                           /\ c # RefReverse(b)}
        IN /\ {row[k] : k \in NonZero(row)} = expected
           /\ Cardinality(NonZero(row)) = Cardinality(expected)

\* a finished run with a row that lists a bond and has lost its reverse
C1_Witness ==
    /\ pc = "mapped"
    /\ \E b \in DirectedBonds(datapoint) :
          /\ NonZero(At(mapping, b)) # {}
          /\ Len(At(mapping, b)) > Cardinality(NonZero(At(mapping, b)))

\* C2: after the mapper has finished, row b of the mapping (b >= 1) has no
\* entry equal to b2revb[b].
C2_NoReverse ==
    pc = "mapped" =>
      \A b \in 1..(Len(mapping) - 1) :
        \A k \in 1..Len(At(mapping, b)) : At(mapping, b)[k] # At(b2revb, b)

\* a finished run where the reverse of a bond was in the list of its origin
C2_Witness ==
    /\ pc = "mapped"
    /\ \E b \in 1..(Len(mapping) - 1) :
          /\ At(b2revb, b) \in Range(At(atom_to_incoming_bonds, At(bond_to_ini_atom, b)))
          /\ At(b2revb, b) # 0

C4_RowCount ==
    (pc \in {"pairs", "modify", "index", "rev", "mapped"}) =>
      /\ Len(f_ini_atoms_bonds_zero_padded) = num_bonds + 1
      /\ Len(bond_to_ini_atom) = num_bonds + 1
      /\ Len(b2revb) = num_bonds + 1
      /\ num_bonds % 2 = 0
      /\ LoopsDone =>
           Len(f_ini_atoms_bonds_zero_padded) = 2 * Len(datapoint.bonds) + 1

\* inside the loops, after a bond has been allocated, with a pair to go
C4_Witness ==
    /\ pc = "pairs"
    /\ num_bonds >= 2

IsChain3(mol) ==
    /\ GetNumAtoms(mol) = 3
    /\ BondedPairs(mol) = {<<1, 2>>, <<2, 3>>}

\* C9: on the chain 1-2-3 the directed bonds are allocated as 1->2 (1),
\* 2->1 (2), 2->3 (3), 3->2 (4); before padding atom 2's incoming list is
\* [1, 4] and atoms 1 and 3 have one incoming bond; all lists, atom 0's
\* included, are then padded to width 2.
C9_Chain ==
    IsChain3(datapoint) =>
      /\ (pc = "pairs" /\ num_bonds = 2) =>
            /\ bond_to_ini_atom = <<0, 1, 2>>
            /\ atom_to_incoming_bonds = << << >>, <<2>>, <<1>>, << >> >>
      /\ pc = "modify" =>
            /\ bond_to_ini_atom = <<0, 1, 2, 2, 3>>
            /\ atom_to_incoming_bonds = << << >>, <<2>>, <<1, 4>>, <<3>> >>
      /\ Padded =>
            /\ bond_to_ini_atom = <<0, 1, 2, 2, 3>>
            /\ atom_to_incoming_bonds = <<<<0, 0>>, <<2, 0>>, <<1, 4>>, <<3, 0>>>>

\* the lists of the chain have been padded
C9_Witness ==
    /\ IsChain3(datapoint)
    /\ pc = "index"

IsDocMolecule(mol) ==
    /\ GetNumAtoms(mol) = 5
    /\ BondedPairs(mol) = {<<1, 2>>, <<2, 3>>, <<2, 4>>, <<1, 5>>}

C6_InputTypeError ==
    (arg # PyNone /\ ~IsMol(arg)) =>
      /\ pc \in {"validate", "raised"}
      /\ FrameUnset
      /\ log = << >>
      /\ (pc = "validate") => (result = PyNone)
      /\ (pc = "raised") =>
            /\ result.raised = "ValueError"
            /\ "smiles" \in Range(result.message)
            /\ "mapping" \notin DOMAIN result

\* the call has raised, on a featurizer set to add hydrogens and to
\* generate global features
C6_Witness ==
    /\ pc = "raised"
    /\ ~IsMol(arg)
    /\ self_is_adding_hs
    /\ self_features_generators = [list |-> <<"morgan">>]

\* C7: a call of _featurize on a molecule returns the record an earlier call
\* of the same featurizer returned on that molecule, whatever was featurized
\* in between.
C7_SameRecord ==
    (pc = "done" /\ remembered # PyNone /\ remembered.arg = arg) =>
      result = remembered.result

\* a molecule with a bond featurized again, hydrogens added and global
\* features generated, after a call on another datapoint
C7_Witness ==
    /\ pc = "done"
    /\ remembered # PyNone
    /\ remembered.arg = arg
    /\ remembered.others
    /\ self_is_adding_hs
    /\ self_features_generators = [list |-> <<"rdkit_desc", "morgan">>]
    /\ Len(result.mapping) >= 3

----------------------------------------------------------------------------
(* C11: atom_features returns a vector of length exactly ATOM_FDIM = 133   *)
(* = 101 + 7 + 6 + 5 + 6 + 6 + 1 + 1 for every atom in each of its modes   *)
(* when no functional-group block is supplied (absent atom, only_atom_num, *)
(* full encoding); hence every row of the zero-padded atom table of        *)
(* _featurize, padding row 0 included, has length ATOM_FDIM.               *)
C11_AtomFdim ==
    /\ ATOM_FDIM = 101 + 7 + 6 + 5 + 6 + 6 + 1 + 1
    /\ (pc = "returned" /\ arg.fn = "atom_features" /\ arg.functional_groups = PyNone)
          => Len(result.returned) = 133
    /\ (pc \in {"construct", "pairs", "modify", "index", "rev", "mapped", "edge"})
          => /\ Len(f_atoms_zero_padded) = GetNumAtoms(datapoint) + 1
             /\ \A r \in 1..Len(f_atoms_zero_padded) :
                   Len(f_atoms_zero_padded[r]) = 133
             /\ f_atoms_zero_padded[1] = Zeros(133)
    /\ (pc = "done") =>
          \A r \in 1..Len(result.node_features_zero_padded) :
             Len(result.node_features_zero_padded[r]) = 133

\* an only_atom_num encoding of an atom whose atomic number is outside the
\* allowable set has been returned
C11_Witness ==
    /\ pc = "returned"
    /\ arg.fn = "atom_features"
    /\ arg.functional_groups = PyNone
    /\ arg.only_atom_num
    /\ arg.atom # PyNone
    /\ GetAtomicNum(arg.atom.mol, arg.atom.idx) = 101
    /\ result.returned[101] = 1

----------------------------------------------------------------------------
(* C12: bond_features returns a vector of length BOND_FDIM = 14 for every  *)
(* input: a missing bond (None) yields exactly 1 followed by 13 zeros, and *)
(* a present bond yields the is-missing flag 0 followed by the 13 bond     *)
(* descriptor entries (also inside the rows of the concatenated table).    *)
C12_BondFdim ==
    /\ (pc = "returned" /\ arg.fn = "bond_features") =>
          /\ Len(result.returned) = 14
          /\ (arg.bond = NoBond) =>
                result.returned = <<1, 0, 0, 0, 0, 0, 0, 0, 0, 0, 0, 0, 0, 0>>
          /\ (arg.bond # NoBond) =>
                /\ result.returned[1] = 0
                /\ Len(Tail(result.returned)) = 13
                /\ \A k \in 1..Len(BondTypes) :
                      (Tail(result.returned)[k] = 1) <=> (arg.bond.btype = BondTypes[k])
    /\ (pc \in {"modify", "index", "rev", "mapped", "edge"}) =>
          \A b \in 2..Len(f_ini_atoms_bonds_zero_padded) :
             /\ Len(f_ini_atoms_bonds_zero_padded[b]) = Len(f_atoms_zero_padded[1]) + 14
             /\ f_ini_atoms_bonds_zero_padded[b][Len(f_atoms_zero_padded[1]) + 1] = 0

\* the vector of a present aromatic bond has been returned
C12_Witness ==
    /\ pc = "returned"
    /\ arg.fn = "bond_features"
    /\ arg.bond # NoBond
    /\ arg.bond.btype = "AROMATIC"
    /\ result.returned[5] = 1

----------------------------------------------------------------------------
(* What the global-feature statements are measured against.                *)

\* the global feature vector of the running call is bound
AfterGlobal ==
    pc \in {"atoms", "pad", "construct", "pairs", "modify", "index", "rev",
            "mapped", "edge"}

\* the names requested, none when features_generators is None
Requested ==
    IF self_features_generators = PyNone THEN << >> ELSE self_features_generators.list

Recognized == {k \in 1..Len(Requested) : Requested[k] \in {"morgan"}}

Unrecognized == (1..Len(Requested)) \ Recognized

\* the entries of v from position lo to position hi
Slice(v, lo, hi) == [k \in 1..(hi - lo + 1) |-> v[lo + k - 1]]

----------------------------------------------------------------------------
(* C13: generate_global_features never raises on an unrecognized generator *)
(* name: each name not in the registry is skipped with a warning and       *)
(* contributes no entries, every recognized name of the same request still *)
(* contributes its full block, and a request of only unrecognized names    *)
(* returns an empty vector.                                                *)
C13_UnknownGenerator ==
    /\ (pc = "raised") => ~IsMol(arg)
    /\ (AfterGlobal /\ self_features_generators # PyNone) =>
          /\ Len(log) = Cardinality(Unrecognized)
          /\ \A k \in Unrecognized :
                \E w \in 1..Len(log) :
                   /\ log[w][1] = Requested[k]
                   /\ w = Cardinality({j \in Unrecognized : j <= k})
          /\ Len(global_features) = 2048 * Cardinality(Recognized)
          /\ (Recognized = {}) => (global_features = << >>)
          /\ (Recognized # {} /\ GetNumHeavyAtoms(datapoint) > 0) =>
                \E k \in 1..2048 : global_features[k] = 1

\* a request of an unregistered and a registered name has been served
C13_Witness ==
    /\ pc = "atoms"
    /\ self_features_generators = [list |-> <<"rdkit_desc", "morgan">>]
    /\ Len(log) = 1
    /\ log[1][1] = "rdkit_desc"
    /\ Len(global_features) = 2048
    /\ \E k \in 1..2048 : global_features[k] = 1

----------------------------------------------------------------------------
(* C14: for a molecule with zero heavy atoms, each recognized generator    *)
(* requested contributes an all-zero block as wide as that generator's     *)
(* output on methane; the generator is not applied to the molecule itself  *)
(* (whose own fingerprint is not zero).                                    *)
C14_NoHeavyAtoms ==
    (AfterGlobal /\ self_features_generators # PyNone
       /\ \A i \in 1..Len(datapoint.atoms) : datapoint.atoms[i].z <= 1) =>
      /\ Len(global_features) = Cardinality(Recognized) * Len(MorganFeaturize(Methane))
      /\ \A k \in 1..Len(global_features) : global_features[k] = 0
      /\ \E k \in 1..Len(MorganFeaturize(datapoint)) : MorganFeaturize(datapoint)[k] # 0

\* hydrogen has been served two blocks
C14_Witness ==
    /\ pc = "atoms"
    /\ datapoint = H2
    /\ self_features_generators = [list |-> <<"morgan", "morgan">>]
    /\ global_features = Zeros(4096)

----------------------------------------------------------------------------
(* C15: the global feature vector is the concatenation, in request order,  *)
(* of one block per recognized generator name in the request (a name       *)
(* requested twice contributes two blocks), so its length is the sum of    *)
(* the widths of those blocks; it is empty when no generators are          *)
(* requested, both when features_generators is None and when it is an      *)
(* empty list.                                                             *)
C15_Concatenation ==
    AfterGlobal =>
      /\ Len(global_features) = 2048 * Cardinality(Recognized)
      /\ \A j \in 1..Cardinality(Recognized) :
            /\ Slice(global_features, 2048 * (j - 1) + 1, 2048 * j)
                  = Slice(global_features, 1, 2048)
            /\ (GetNumHeavyAtoms(datapoint) > 0) =>
                  \E k \in 1..2048 : global_features[2048 * (j - 1) + k] = 1
      /\ (self_features_generators = PyNone
            \/ self_features_generators = [list |-> << >>]) =>
              /\ global_features = << >>
              /\ log = << >>

\* a name requested twice has contributed two blocks for a carbon molecule
C15_Witness ==
    /\ pc = "atoms"
    /\ self_features_generators = [list |-> <<"morgan", "morgan">>]
    /\ GetNumHeavyAtoms(datapoint) > 0
    /\ Len(global_features) = 4096
    /\ \E k \in 1..2048 : global_features[k] = 1 /\ global_features[2048 + k] = 1

\* no generators requested, as an empty list
C15_WitnessEmpty ==
    /\ pc = "atoms"
    /\ self_features_generators = [list |-> << >>]
    /\ global_features = << >>

----------------------------------------------------------------------------
(* C16: the directed edge index has exactly 2 * (number of bonds) columns: *)
(* for the k-th bond in the molecule's bond-iteration order (k = 0, 1,     *)
(* ...), column 2k is (src = begin atom, dst = end atom) and column 2k+1   *)
(* is (src = end atom, dst = begin atom), with 0-based atom indices; its   *)
(* column count equals the concatenated table's row count minus 1.         *)
C16_EdgeIndex ==
    /\ (pc = "edge") =>
          LET src == edge_index[1]
              dest == edge_index[2]
              nb == Len(datapoint.bonds)
          IN /\ Len(edge_index) = 2
             /\ Len(src) = 2 * nb
             /\ Len(dest) = 2 * nb
             /\ \A k \in 0..(nb - 1) :
                   /\ At(src, 2 * k) = datapoint.bonds[k + 1].begin
                   /\ At(dest, 2 * k) = datapoint.bonds[k + 1].end
                   /\ At(src, 2 * k + 1) = datapoint.bonds[k + 1].end
                   /\ At(dest, 2 * k + 1) = datapoint.bonds[k + 1].begin
             /\ Len(src) = Len(f_ini_atoms_bonds_zero_padded) - 1
    /\ (pc = "done") =>
          /\ Len(result.edge_index[1])
               = Len(result.concatenated_features_zero_padded) - 1
          /\ Len(result.edge_index[2]) = Len(result.edge_index[1])

\* two bonds, the first listed from its higher atom to its lower one
C16_Witness ==
    /\ pc = "edge"
    /\ Len(datapoint.bonds) = 2
    /\ datapoint.bonds[1].begin = 1
    /\ datapoint.bonds[1].end = 0
    /\ edge_index = <<<<1, 0, 0, 2>>, <<0, 1, 2, 0>>>>

----------------------------------------------------------------------------
(* C18: map_reac_to_prod returns, as its second component, the atom ids of *)
(* the product that are not part of the reactant-to-product mapping: for   *)
(* every reactant/product pair (any assignment of atom map numbers,        *)
(* repeated map numbers included), every product atom index is either a    *)
(* value of the returned dictionary or an element of only_prod_ids, and    *)
(* never both.                                                             *)
C18_OnlyProdIds ==
    (pc = "returned" /\ arg.fn = "map_reac_to_prod") =>
      LET reac_id_to_prod_id == result.returned[1]
          only_prod_ids == result.returned[2]
          mapped == {reac_id_to_prod_id[k] : k \in DOMAIN reac_id_to_prod_id}
      IN \A idx \in 0..(GetNumAtoms(arg.mol_prod) - 1) :
            (idx \in mapped) <=> (idx \notin Range(only_prod_ids))

----------------------------------------------------------------------------
(* C19: reverse pairing is a consecutive-pair involution: after any number *)
(* of atom-pair iterations of the mapper, b2revb[0] = 0 and for every      *)
(* allocated directed bond b >= 1, b2revb[b] = b+1 if b is odd and b-1 if  *)
(* b is even, so b2revb[b2revb[b]] = b and b2revb[b] # b; the origin of    *)
(* b2revb[b] is the other endpoint of b's undirected bond, and             *)
(* origin(b) < origin(b+1) for odd b.                                      *)
C19_ReversePairing ==
    (pc \in {"pairs", "modify", "index", "rev", "mapped"}) =>
      /\ At(b2revb, 0) = 0
      /\ Len(b2revb) = num_bonds + 1
      /\ Len(bond_to_ini_atom) = num_bonds + 1
      /\ \A b \in 1..num_bonds :
            LET revb == At(b2revb, b)
                origin == At(bond_to_ini_atom, b)
                other == At(bond_to_ini_atom, revb)
            IN /\ revb = IF b % 2 = 1 THEN b + 1 ELSE b - 1
               /\ revb \in 1..num_bonds
               /\ At(b2revb, revb) = b
               /\ revb # b
               /\ origin # other
               /\ GetBondBetweenAtoms(datapoint, origin - 1, other - 1) # NoBond
               /\ (pc \in {"pairs", "modify"}) =>
                     b \in Range(At(atom_to_incoming_bonds, other))
               /\ (b % 2 = 1) => origin < At(bond_to_ini_atom, b + 1)

\* two bonds allocated and the pair loops still running
C19_Witness ==
    /\ pc = "pairs"
    /\ num_bonds = 4
    /\ b2revb = <<0, 2, 1, 4, 3>>
    /\ bond_to_ini_atom = <<0, 1, 2, 1, 3>>

----------------------------------------------------------------------------
(* C20: after _modify_based_on_max_bonds, every atom's incoming-bond list, *)
(* for all atom indices 0..num_atoms including padding atom 0, has the     *)
(* same length max_in_degree = max(1, largest unpadded list length); each  *)
(* list keeps its original entries as a prefix in their original order,    *)
(* followed only by zeros, and atom 0's list is all zeros.                 *)
C20_Padding ==
    [][(pc = "modify" /\ pc' = "index") =>
         LET unpadded == atom_to_incoming_bonds
             padded == atom_to_incoming_bonds'
             largest == Max({Len(unpadded[i]) : i \in 1..Len(unpadded)})
             max_in_degree == IF largest > 1 THEN largest ELSE 1
         IN /\ Len(padded) = num_atoms + 1
            /\ Len(unpadded) = num_atoms + 1
            /\ \A a \in 0..num_atoms :
                  /\ Len(At(padded, a)) = max_in_degree
                  /\ \A k \in 1..Len(At(unpadded, a)) :
                        /\ At(padded, a)[k] = At(unpadded, a)[k]
                        /\ At(padded, a)[k] # 0
                  /\ \A k \in (Len(At(unpadded, a)) + 1)..max_in_degree :
                        At(padded, a)[k] = 0
            /\ At(padded, 0) = Zeros(max_in_degree)]_vars

\* padded lists of an atom with two incoming bonds and two atoms with one
C20_Witness ==
    /\ pc = "index"
    /\ atom_to_incoming_bonds = <<<<0, 0>>, <<2, 4>>, <<1, 0>>, <<3, 0>>>>

----------------------------------------------------------------------------
----------------------------------------------------------------------------
(* C21: row content of the concatenated table: row 0 is all zeros over the *)
(* full width ATOM_FDIM + BOND_FDIM (its bond part is not the missing-bond *)
(* vector 1, 0, ..., 0); for every directed bond b >= 1 the first          *)
(* ATOM_FDIM entries of row b equal row origin(b) of the zero-padded atom  *)
(* table and the last BOND_FDIM entries equal the feature vector of b's    *)
(* undirected bond, so rows b and reverse(b) have identical bond parts.    *)
C21_RowContent ==
    (pc \in {"pairs", "modify", "index", "rev", "mapped", "edge"}) =>
      /\ Len(f_ini_atoms_bonds_zero_padded) = num_bonds + 1
      /\ At(f_ini_atoms_bonds_zero_padded, 0) = Zeros(133 + 14)
      /\ At(f_ini_atoms_bonds_zero_padded, 0)[133 + 1] # 1
      /\ \A b \in 1..num_bonds :
            LET row == At(f_ini_atoms_bonds_zero_padded, b)
                origin == RefOrigin(datapoint, b)
                dest == RefDest(datapoint, b)
                bond == GetBondBetweenAtoms(datapoint, origin - 1, dest - 1)
            IN /\ Len(row) = 133 + 14
               /\ Slice(row, 1, 133) = At(f_atoms_zero_padded, origin)
               /\ Slice(row, 133 + 1, 133 + 14) = bond_features(bond)
               /\ row[133 + 1] = 0
               /\ \A k \in 1..Len(BondTypes) :
                     (row[133 + 1 + k] = 1) <=> (bond.btype = BondTypes[k])
               /\ Slice(row, 133 + 1, 133 + 14)
                    = Slice(At(f_ini_atoms_bonds_zero_padded, RefReverse(b)),
                            133 + 1, 133 + 14)

\* two bonds at one atom: the rows of a bond and its reverse differ in their
\* atom parts, the rows of the two bonds leaving the atom share theirs
C21_Witness ==
    /\ pc = "mapped"
    /\ num_bonds = 4
    /\ Slice(At(f_ini_atoms_bonds_zero_padded, 1), 1, 133)
         # Slice(At(f_ini_atoms_bonds_zero_padded, 2), 1, 133)
    /\ Slice(At(f_ini_atoms_bonds_zero_padded, 1), 134, 147)
         = Slice(At(f_ini_atoms_bonds_zero_padded, 2), 134, 147)
    /\ Slice(At(f_ini_atoms_bonds_zero_padded, 1), 1, 133)
         = Slice(At(f_ini_atoms_bonds_zero_padded, 3), 1, 133)
    /\ bond_to_ini_atom = <<0, 1, 2, 1, 3>>

----------------------------------------------------------------------------
(* C22: visiting an atom pair (a1, a2) that has no bond between atoms a1-1 *)
(* and a2-1 consumes no bond index and changes nothing: num_bonds, the     *)
(* concatenated table, atom_to_incoming_bonds, bond_to_ini_atom and b2revb *)
(* are all unchanged by that iteration.                                    *)
C22_NoBondNoChange ==
    [][(pc = "pairs" /\ <<a1, a2>> \notin BondedPairs(datapoint)) =>
         /\ num_bonds' = num_bonds
         /\ f_ini_atoms_bonds_zero_padded' = f_ini_atoms_bonds_zero_padded
         /\ atom_to_incoming_bonds' = atom_to_incoming_bonds
         /\ bond_to_ini_atom' = bond_to_ini_atom
         /\ b2revb' = b2revb
         /\ <<a1', a2'>> # <<a1, a2>>]_vars

\* the pair (1, 2) has been visited without a bond, in a molecule that has
\* bonds elsewhere
C22_Witness ==
    /\ pc = "pairs"
    /\ <<a1, a2>> = <<1, 3>>
    /\ <<1, 2>> \notin BondedPairs(datapoint)
    /\ BondedPairs(datapoint) # {}
    /\ num_bonds = 0
    /\ b2revb = <<0>>

----------------------------------------------------------------------------
(* What the statement about the order of the steps is measured against.    *)

\* the hydrogens of the molecule that have no atom of their own
HsToAdd(mol) ==
    Cardinality({p \in (1..Len(mol.atoms)) \X (1..4) : p[2] <= mol.atoms[p[1]].implicitHs})

\* atoms and bonds of the molecule the record is to be computed from
ExpectedAtoms == Len(arg.atoms) + (IF self_is_adding_hs THEN HsToAdd(arg) ELSE 0)

ExpectedBonds == Len(arg.bonds) + (IF self_is_adding_hs THEN HsToAdd(arg) ELSE 0)

\* the steps of _featurize in their order, as pairs of positions
StepOrder ==
    {<<"validate", "global">>, <<"validate", "raised">>, <<"global", "atoms">>,
     <<"atoms", "pad">>, <<"pad", "construct">>, <<"construct", "pairs">>,
     <<"construct", "modify">>, <<"pairs", "pairs">>, <<"pairs", "modify">>,
     <<"modify", "index">>, <<"index", "rev">>, <<"rev", "rev">>,
     <<"rev", "mapped">>, <<"mapped", "edge">>, <<"edge", "done">>}

\* what is bound at each position
BoundInOrder ==
    /\ (pc = "validate") => FrameUnset
    /\ (pc = "global") =>
          /\ Len(datapoint.atoms) = ExpectedAtoms
          /\ Len(datapoint.bonds) = ExpectedBonds
          /\ global_features = None /\ f_atoms = None
          /\ f_atoms_zero_padded = None /\ MapperUnset /\ edge_index = None
    /\ (pc = "atoms") =>
          /\ Len(global_features) = 2048 * Cardinality(Recognized)
          /\ f_atoms = None
          /\ f_atoms_zero_padded = None /\ MapperUnset /\ edge_index = None
    /\ (pc = "pad") =>
          /\ Len(f_atoms) = ExpectedAtoms
          /\ f_atoms_zero_padded = None /\ MapperUnset /\ edge_index = None
    /\ (pc = "construct") =>
          /\ Len(f_atoms_zero_padded) = ExpectedAtoms + 1
          /\ MapperUnset /\ edge_index = None
    /\ (pc \in {"pairs", "modify", "index", "rev", "mapped"}) =>
          /\ num_atoms = ExpectedAtoms
          /\ num_atoms = Len(f_atoms)
          /\ Len(datapoint.atoms) = ExpectedAtoms
          /\ edge_index = None
    /\ (pc = "edge") =>
          /\ Len(mapping) = 2 * ExpectedBonds + 1
          /\ Len(edge_index[1]) = 2 * ExpectedBonds

----------------------------------------------------------------------------
(* C23: in _featurize the steps occur in the order: input validation,      *)
(* optional hydrogen addition, global features, per-atom feature matrix,   *)
(* zero-padded atom table, mapper (concatenated table and mapping), edge   *)
(* index; when is_adding_hs is set, hydrogen addition precedes every read  *)
(* of atom or bond counts, so every component of the record (global        *)
(* features included) is computed from the hydrogen-added molecule and the *)
(* atom count seen by the mapper equals the row count of node_features.    *)
C23_StepOrder ==
    [][/\ <<pc, pc'>> \in StepOrder
       /\ BoundInOrder'
       /\ (pc' = "done") =>
             /\ Len(result'.node_features) = ExpectedAtoms'
             /\ num_atoms = Len(result'.node_features)
             /\ Len(result'.node_features_zero_padded) = ExpectedAtoms' + 1
             /\ Len(result'.edge_index[1]) = 2 * ExpectedBonds'
             /\ Len(result'.mapping) = 2 * ExpectedBonds' + 1
             /\ Len(result'.concatenated_features_zero_padded) = 2 * ExpectedBonds' + 1
             /\ (self_features_generators # PyNone) =>
                   result'.global_features
                     = generate_global_features(datapoint,
                                                self_features_generators.list).features
             /\ Len(datapoint.atoms) = ExpectedAtoms]_vars

\* a record computed after a hydrogen was added: one more atom row, one
\* more bond, and the hydrogen's bit in the global features
C23_Witness ==
    /\ pc = "done"
    /\ self_is_adding_hs
    /\ HsToAdd(arg) = 1
    /\ Len(arg.atoms) = 2
    /\ Len(result.node_features) = 3
    /\ Len(result.mapping) = 5
    /\ self_features_generators = [list |-> <<"morgan">>]
    /\ result.global_features # MorganFeaturize(arg)

----------------------------------------------------------------------------
(* C24: in only_atom_num mode atom_features returns the 101-wide atomic    *)
(* number one-hot block (identical to the first 101 entries of the         *)
(* full-mode vector for the same atom) followed by exactly                 *)
(* ATOM_FDIM - MAX_ATOMIC_NUM - 1 = 32 zeros, so the total length stays    *)
(* ATOM_FDIM = 133.                                                        *)
C24_OnlyAtomNum ==
    (pc = "returned" /\ arg.fn = "atom_features" /\ arg.atom # PyNone) =>
      LET z == arg.atom.mol.atoms[arg.atom.idx + 1].z
          hot == IF z <= 100 THEN z ELSE 101
          v == result.returned
      IN /\ \A k \in 1..101 : v[k] = (IF k = hot THEN 1 ELSE 0)
         /\ arg.only_atom_num =>
               /\ Len(v) = 133
               /\ \A k \in 102..133 : v[k] = 0
               /\ Cardinality(102..Len(v)) = 133 - 100 - 1
               /\ Slice(v, 1, 101)
                    = Slice(atom_features(arg.atom, PyNone, FALSE), 1, 101)
         /\ (~arg.only_atom_num) => \E k \in 102..133 : v[k] # 0

\* carbon encoded in only_atom_num mode, a functional-group block supplied
\* and left out
C24_Witness ==
    /\ pc = "returned"
    /\ arg.fn = "atom_features"
    /\ arg.atom # PyNone
    /\ arg.only_atom_num
    /\ arg.functional_groups = [list |-> <<1>>]
    /\ arg.atom.mol.atoms[1].z = 6
    /\ result.returned[6] = 1
    /\ Len(result.returned) = 133

----------------------------------------------------------------------------
(* What the statements about the running pair loops are measured against.  *)

\* the bonded pairs the loops have already been through
VisitedPairs ==
    IF pc = "pairs"
    THEN {p \in BondedPairs(datapoint) : LexLess(p, <<a1, a2>>)}
    ELSE BondedPairs(datapoint)

\* the positions <<a, k>> of the incoming lists
ListPositions ==
    UNION { {<<a, k>> : k \in 1..Len(At(atom_to_incoming_bonds, a))} :
              a \in 0..(Len(atom_to_incoming_bonds) - 1) }

----------------------------------------------------------------------------
(* C25: after any number of atom-pair iterations of the mapper (before     *)
(* padding), every allocated directed bond b >= 1 occurs exactly once      *)
(* across all incoming-bond lists, namely in the list of its destination   *)
(* atom origin(reverse(b)); the padding atom 0's list is empty; the length *)
(* of atom a's list equals the number of already-visited bonds at a; and   *)
(* the lengths sum to num_bonds.                                           *)
C25_IncomingLists ==
    (pc \in {"pairs", "modify"}) =>
      /\ num_bonds = 2 * Cardinality(VisitedPairs)
      /\ Len(atom_to_incoming_bonds) = num_atoms + 1
      /\ \A b \in 1..num_bonds :
            LET where == {p \in ListPositions :
                            At(atom_to_incoming_bonds, p[1])[p[2]] = b}
            IN /\ Cardinality(where) = 1
               /\ \A p \in where :
                     /\ p[1] = At(bond_to_ini_atom, At(b2revb, b))
                     /\ p[1] = RefDest(datapoint, b)
      /\ At(atom_to_incoming_bonds, 0) = << >>
      /\ \A a \in 1..num_atoms :
            Len(At(atom_to_incoming_bonds, a))
              = Cardinality({p \in VisitedPairs : a \in {p[1], p[2]}})
      /\ Cardinality(ListPositions) = num_bonds
      /\ \A p \in ListPositions :
            At(atom_to_incoming_bonds, p[1])[p[2]] \in 1..num_bonds

\* one bond visited, another still to come
C25_Witness ==
    /\ pc = "pairs"
    /\ num_bonds = 2
    /\ atom_to_incoming_bonds = <<<< >>, <<2>>, <<1>>, << >>>>
    /\ <<2, 3>> \in BondedPairs(datapoint)
    /\ <<a1, a2>> = <<2, 3>>

----------------------------------------------------------------------------
----------------------------------------------------------------------------
(* C27: reverse-stripping of mapping row i modifies only row i: rows of    *)
(* different directed bonds that share the same origin atom are            *)
(* independent copies of that atom's incoming list (each loses only its    *)
(* own reverse and keeps the reverse of the other), and the per-atom lists *)
(* atom_to_incoming_bonds are unchanged by _replace_rev_bonds.             *)
C27_OnlyOwnRow ==
    [][(pc = "rev") =>
         /\ atom_to_incoming_bonds' = atom_to_incoming_bonds
         /\ Len(mapping') = Len(mapping)
         /\ \A r \in 0..(Len(mapping) - 1) :
               (r # count) => (At(mapping', r) = At(mapping, r))
         /\ (pc' = "mapped") =>
               \A b, c \in 1..num_bonds :
                  (b # c /\ RefOrigin(datapoint, b) = RefOrigin(datapoint, c)) =>
                     /\ RefReverse(c) \in Range(At(mapping', b))
                     /\ RefReverse(b) \notin Range(At(mapping', b))]_vars

\* the rows of the two bonds leaving atom 1, each without its own reverse
C27_Witness ==
    /\ pc = "mapped"
    /\ num_bonds = 4
    /\ bond_to_ini_atom = <<0, 1, 2, 1, 3>>
    /\ At(mapping, 1) = <<0, 4>>
    /\ At(mapping, 3) = <<2, 0>>
    /\ At(atom_to_incoming_bonds, 1) = <<2, 4>>

----------------------------------------------------------------------------
(* C28: every atom's unpadded incoming-bond list is strictly increasing in *)
(* directed-bond index at every point of the mapper's run; consequently    *)
(* the non-zero entries of every final mapping row appear in strictly      *)
(* increasing order from left to right.                                    *)
C28_Increasing ==
    /\ (pc \in {"pairs", "modify"}) =>
          \A a \in 0..num_atoms :
             \A j, k \in 1..Len(At(atom_to_incoming_bonds, a)) :
                (j < k) => At(atom_to_incoming_bonds, a)[j]
                             < At(atom_to_incoming_bonds, a)[k]
    /\ (pc \in {"index", "rev", "mapped"}) =>
          \A a \in 0..num_atoms :
             \A j, k \in NonZero(At(atom_to_incoming_bonds, a)) :
                (j < k) => At(atom_to_incoming_bonds, a)[j]
                             < At(atom_to_incoming_bonds, a)[k]
    /\ (pc \in {"rev", "mapped"}) =>
          \A b \in 0..num_bonds :
             \A j, k \in NonZero(At(mapping, b)) :
                (j < k) => At(mapping, b)[j] < At(mapping, b)[k]

\* the final row of the bond from atom 2 to atom 1 in the documentation's
\* molecule: two bonds left after its reverse, in increasing order
C28_Witness ==
    /\ pc = "mapped"
    /\ At(mapping, 2) = <<0, 6, 8>>
    /\ At(atom_to_incoming_bonds, 2) = <<1, 6, 8>>

----------------------------------------------------------------------------
(* C29: all indices emitted by the mapper are in range: every entry of the *)
(* final mapping lies in 0..2*(number of real bonds), a valid row index of *)
(* the concatenated table; bond_to_ini_atom[0] = 0 and bond_to_ini_atom[b] *)
(* lies in 1..num_atoms for every b >= 1, a valid non-padding row index of *)
(* the zero-padded atom table.                                             *)
C29_InRange ==
    (pc = "mapped") =>
      LET real_bonds == Cardinality(BondedPairs(datapoint))
      IN /\ \A r \in 0..(Len(mapping) - 1) :
               \A k \in 1..Len(At(mapping, r)) :
                  /\ At(mapping, r)[k] \in 0..(2 * real_bonds)
                  /\ At(mapping, r)[k] < Len(f_ini_atoms_bonds_zero_padded)
         /\ At(bond_to_ini_atom, 0) = 0
         /\ \A b \in 1..(Len(bond_to_ini_atom) - 1) :
               /\ At(bond_to_ini_atom, b) \in 1..GetNumAtoms(datapoint)
               /\ At(bond_to_ini_atom, b) < Len(f_atoms_zero_padded)

\* a finished run on two bonds whose last directed bond appears in a row
C29_Witness ==
    /\ pc = "mapped"
    /\ Cardinality(BondedPairs(datapoint)) = 2
    /\ Len(bond_to_ini_atom) = 5
    /\ At(bond_to_ini_atom, 1) = 1
    /\ \E r \in 0..(Len(mapping) - 1) : 4 \in Range(At(mapping, r))

----------------------------------------------------------------------------
\* indices of the product atoms that carry map number mapno
ProdCarriers(mol_prod, mapno) ==
    {j \in 0..(GetNumAtoms(mol_prod) - 1) : GetAtomMapNum(mol_prod, j) = mapno}

(* C30: map_reac_to_prod partitions the reactant atoms: every reactant     *)
(* atom index is either a key of the returned dictionary or an element of  *)
(* only_reac_ids, never both; a reactant atom is a key exactly when its    *)
(* map number is positive and some product atom carries the same map       *)
(* number, and its value is then the index of the last product atom (in    *)
(* product atom order) carrying that map number.                           *)
C30_ReactantPartition ==
    (pc = "returned" /\ arg.fn = "map_reac_to_prod") =>
      LET reac_id_to_prod_id == result.returned[1]
          only_reac_ids == result.returned[3]
      IN /\ DOMAIN reac_id_to_prod_id \subseteq 0..(GetNumAtoms(arg.mol_reac) - 1)
         /\ Range(only_reac_ids) \subseteq 0..(GetNumAtoms(arg.mol_reac) - 1)
         /\ \A idx \in 0..(GetNumAtoms(arg.mol_reac) - 1) :
               LET mapno == GetAtomMapNum(arg.mol_reac, idx)
                   carriers == ProdCarriers(arg.mol_prod, mapno)
               IN /\ (idx \in DOMAIN reac_id_to_prod_id)
                       <=> (idx \notin Range(only_reac_ids))
                  /\ (idx \in DOMAIN reac_id_to_prod_id)
                       <=> (mapno > 0 /\ carriers # {})
                  /\ (idx \in DOMAIN reac_id_to_prod_id) =>
                        reac_id_to_prod_id[idx] = Max(carriers)

\* a reactant with one mapped and one unmapped atom, and a product whose
\* two atoms both carry the mapped atom's number
C30_Witness ==
    /\ pc = "returned"
    /\ arg.fn = "map_reac_to_prod"
    /\ GetNumAtoms(arg.mol_reac) = 2
    /\ GetAtomMapNum(arg.mol_reac, 0) = 0
    /\ GetAtomMapNum(arg.mol_reac, 1) = 1
    /\ ProdCarriers(arg.mol_prod, 1) = {0, 1}
    /\ DOMAIN result.returned[1] = {1}
    /\ result.returned[1][1] = 1
    /\ result.returned[3] = <<0>>

====
